---- MODULE Spec2Model ----
(***************************************************************************)
(* A model of the PoST proof service (service/src/service.rs), of the      *)
(* worker thread it owns, and of the client that bridges it to the         *)
(* coordinator (service/tests/test_client.rs exercises that client).       *)
(*                                                                         *)
(* An Option<T> of the source is a sequence of length 0 (None) or 1        *)
(* (Some(x)); a Vec<u8> or [u8; n] is a sequence of bytes.                 *)
(***************************************************************************)
EXTENDS Integers, Sequences, FiniteSets, TLC

VARIABLES
    metadata,          \* the metadata record stored in datadir (post::metadata::load)
    id,                \* PostService.id
    proof_generation,  \* PostService.proof_generation : Option<ProofGenProcess>
    stop,              \* PostService.stop : AtomicBool
    workers,           \* every thread std::thread::spawn has started, by handle
    svc,               \* the PostService object: "live", "joining" (in drop), "dropped",
                       \* "panicked" (gen_proof unwound), "drop_panicked" (drop unwound)
    drop_handle,       \* Drop: the handle of the process taken at service.rs:135
    ret,               \* what the last gen_proof call returned
    branch,            \* the branch of gen_proof the last call took
    calls,             \* number of gen_proof calls made
    cstate,            \* client: "Disconnected", "Connecting", "Registered", "Serving", "Stopped"
    max_retries,       \* Cli.max_retries : Option<usize>
    attempt,           \* failed connection attempts so far
    registers,         \* Register messages sent on the current connection
    request,           \* the last NodeRequest handled : Option
    verify_result,     \* result of verify_proof in the last handler: "none", "ok", "failed"
    response,          \* the last ServiceResponse sent : Option<GenProofResponse>
    handled,           \* number of NodeRequests answered
    pid_state,         \* watch_pid: the watched process: "Run", "Sleep", "Zombie", "Dead", "Gone"
    term,              \* watch_pid: the oneshot channel term: "open", "sent", "closed"
    wpc,               \* watch_pid: "refresh", "try_recv", "sleep", "returned"
    wreason,           \* watch_pid: why it returned: "none", "gone", "died", "terminated"
    polls,             \* watch_pid: calls of refresh_process made, counted up to MaxPolls
    global_work_size,  \* Scrypter: labels the kernel computes in one run
    vrf_difficulty,    \* Scrypter: Option<[u8; 32]>
    vrf_nonce,         \* Scrypter: Option<VrfNonce>, the smallest label seen so far
    seed,              \* Scrypter: stands for the commitment and N given to the kernel
    returned,          \* Scrypter: what the calls of scrypt that succeeded returned, in order
    labels,            \* scrypt: the range labels.start..labels.end
    out,               \* scrypt: the caller's buffer, a sequence of bytes
    labels_buffer,     \* scrypt: the host buffer the device output is read into
    batch,             \* scrypt: chunks of out handled so far
    spc,               \* scrypt: "idle", "running", "ok", "err"
    sret,              \* scrypt: the error returned, "none" if none
    pow_fn,            \* scrypt PoW: "find_k2_pow" or "find_k3_pow"
    pow_hash,          \* scrypt PoW: p |-> hash_k2_pow / hash_k3_pow of the inputs and p
    pow_difficulty,    \* scrypt PoW: difficulty
    checked,           \* scrypt PoW: the p whose predicate the workers have evaluated
    best,              \* scrypt PoW: Option, the lowest p found to satisfy the predicate
    ppc,               \* scrypt PoW: "searching", "returned", "panicked"
    pow_results,       \* scrypt PoW: what the calls made with these inputs returned
    rx_vm_ok,          \* RandomX PoW: whether RandomXVM::new succeeds for this PoW
    rx_seed,           \* RandomX PoW: stands for the cache key and flags of the VM
    nonce_group,       \* RandomX PoW: u8
    rx_challenge,      \* RandomX PoW: challenge, [u8; 8]
    rx_difficulty,     \* RandomX PoW: difficulty, [u8; 32]
    prove_ret,         \* RandomX PoW: what prove returned
    rx_pow,            \* RandomX PoW: the pow given to verify
    verify_ret,        \* RandomX PoW: what verify returned
    rxpc,              \* RandomX PoW: "new", "proved", "verified"
    num_labels,        \* prover: num_units * labels_per_unit of the data set
    cfg,               \* prover: ProofConfig, [k1, k2]
    nonces_total,      \* prover: nonces to try, a multiple of 16
    pv_seed,           \* prover: stands for the labels and the challenge
    pv_dry,            \* prover: nonces below it have no label under the difficulty
    window,            \* prover: first nonce of the window being scanned
    pv_proof,          \* prover: Proof, [nonce, indices, pow]
    pvpc,              \* prover and verifier: position
    v_ret,             \* verifier: result of Verifier::verify
    tampered,          \* verifier: the proof was changed after it had been accepted
    nonces_arg,        \* parse_nonces: the argument, a string
    nonces_ret,        \* parse_nonces: the result
    pnpc,              \* parse_nonces: "called", "returned"
    stop_flag,         \* generate_proof: the AtomicBool shared with the service
    gp_phase,          \* generate_proof: "scan", "k2_pow", "k3_pow", "randomx", "done"
    gp_window,         \* generate_proof: the window of 16 nonces being scanned
    gp_pos,            \* generate_proof: chunk of the scan, or candidate of the search
    gp_hit,            \* generate_proof: [window, chunk] where a nonce reaches k2 indices
    gp_sol,            \* generate_proof: [k2, k3, rx], the first solution of each search
    gp_ret,            \* generate_proof: "none", "Ok", "Cancelled"
    shutdown           \* Drop for PostService: "live", "joining", "dropped"

svc_vars    == <<metadata, id, proof_generation, stop, workers, svc, drop_handle, ret, branch, calls>>
client_vars == <<cstate, max_retries, attempt, registers, request, verify_result,
                 response, handled>>
watch_vars  == <<pid_state, term, wpc, wreason, polls>>
scrypt_vars == <<global_work_size, vrf_difficulty, vrf_nonce, seed, labels, out, labels_buffer,
                 batch, spc, sret, returned>>
pow_vars == <<pow_fn, pow_hash, pow_difficulty, checked, best, ppc, pow_results>>
rx_vars == <<rx_vm_ok, rx_seed, nonce_group, rx_challenge, rx_difficulty, prove_ret, rx_pow,
             verify_ret, rxpc>>
pv_vars == <<num_labels, cfg, nonces_total, pv_seed, pv_dry, window, pv_proof, pvpc, v_ret,
             tampered>>
parse_vars == <<nonces_arg, nonces_ret, pnpc>>
gp_vars == <<stop_flag, gp_phase, gp_window, gp_pos, gp_hit, gp_sol, gp_ret, shutdown>>
non_service_vars == <<watch_vars, scrypt_vars, pow_vars, rx_vars, pv_vars, parse_vars, gp_vars>>
non_watch_vars == <<svc_vars, client_vars, scrypt_vars, pow_vars, rx_vars, pv_vars, parse_vars, gp_vars>>
non_scrypt_vars == <<svc_vars, client_vars, watch_vars, pow_vars, rx_vars, pv_vars, parse_vars, gp_vars>>
non_pow_vars == <<svc_vars, client_vars, watch_vars, scrypt_vars, rx_vars, pv_vars, parse_vars, gp_vars>>
non_rx_vars == <<svc_vars, client_vars, watch_vars, scrypt_vars, pow_vars, pv_vars, parse_vars, gp_vars>>
non_prove_vars == <<svc_vars, client_vars, watch_vars, scrypt_vars, parse_vars, gp_vars>>
non_parse_vars == <<svc_vars, client_vars, watch_vars, scrypt_vars, pow_vars, rx_vars, pv_vars,
                   gp_vars>>
non_gp_vars == <<svc_vars, client_vars, watch_vars, scrypt_vars, pow_vars, rx_vars, pv_vars,
                 parse_vars>>
vars        == <<metadata, id, proof_generation, stop, workers, svc, drop_handle, ret, branch,
                 calls,
                 cstate, max_retries, attempt, registers, request, verify_result,
                 response, handled, watch_vars, scrypt_vars, pow_vars, rx_vars, pv_vars,
                 parse_vars, gp_vars>>

----------------------------------------------------------------------------
(* Bounds of the model *)

\* the coordinator sends at most MaxRequests requests in a run
MaxRequests == 4
\* the client gives up connecting or loses its connection at most MaxAttempts times
MaxAttempts == 2
MaxPolls == 3
MaxWgSize == 1
MaxLabels == 66
MaxStart == 1
MaxSeed == 2
MaxPow == 4
MaxHash == 2
MaxRuns == 2
MaxNonceLow == 2
MaxRxSeed == 2
MaxNumLabels == 6
MaxK1 == 3
MaxK2 == 3
MaxProveSeed == 2
ValueBits == 4
MsbBits == 2
MaxArgLen == 4
\* calls of scrypt on one Scrypter
MaxCalls == 2

----------------------------------------------------------------------------
(* Values *)

\* a challenge is [u8; 32]
ChallengeLen == 32
\* the byte of the challenge the tests send, [0xCA; 32]
ChallengeByte == 202

None == <<>>
Some(x) == <<x>>

Rep(n, b) == [i \in 1..n |-> b]

\* the challenges a coordinator may send: well-formed ones and ones of a wrong length
Challenges ==
    { Rep(ChallengeLen, ChallengeByte), Rep(ChallengeLen, 0),
      Rep(ChallengeLen - 1, ChallengeByte), Rep(ChallengeLen + 1, ChallengeByte), <<>> }

\* the metadata records a data directory may hold
Metadatas ==
    { [node_id |-> Rep(ChallengeLen, 187), commitment_atx_id |-> Rep(ChallengeLen, 204),
       num_units |-> 4, labels_per_unit |-> 256],
      [node_id |-> Rep(ChallengeLen, 77), commitment_atx_id |-> Rep(ChallengeLen, 0),
       num_units |-> 31, labels_per_unit |-> 4096] }

\* the proofs a worker may return
Proofs ==
    { [nonce |-> 1, indices |-> Rep(ChallengeLen, 170), pow |-> 7],
      [nonce |-> 0, indices |-> Rep(ChallengeLen, 0), pow |-> 0] }

\* the errors generate_proof may return while the stop flag is not set
WorkerErrors == {"Io", "PoWNotFound"}

\* eyre::Result<ProofGenState>, and a panic unwinding out of gen_proof
RetNone       == [kind |-> "None", proof |-> None, metadata |-> None, err |-> ""]
RetInProgress == [kind |-> "InProgress", proof |-> None, metadata |-> None, err |-> ""]
RetFinished(proof, md) ==
    [kind |-> "Finished", proof |-> Some(proof), metadata |-> Some(md), err |-> ""]
RetErr(e)     == [kind |-> "Err", proof |-> None, metadata |-> None, err |-> e]
RetPanic      == [kind |-> "Panic", proof |-> None, metadata |-> None, err |-> ""]

----------------------------------------------------------------------------
(* The worker thread: the closure of std::thread::spawn at service.rs:121 *)

Worker(challenge, miner_id) ==
    [challenge |-> challenge, miner_id |-> miner_id, status |-> "running",
     proof |-> None, err |-> "", joined |-> FALSE]

\* generate_proof returns Ok(proof)
WorkerFinishOk(h, proof) ==
    /\ h \in DOMAIN workers
    /\ workers[h].status = "running"
    /\ workers' = [workers EXCEPT ![h].status = "ok", ![h].proof = Some(proof)]
    /\ UNCHANGED <<metadata, id, proof_generation, stop, svc, drop_handle, ret, branch, calls>>
    /\ UNCHANGED client_vars

\* generate_proof returns Err(e); Cancelled is returned only once the stop flag is set
WorkerFinishErr(h, e) ==
    /\ h \in DOMAIN workers
    /\ workers[h].status = "running"
    /\ e = "Cancelled" => stop
    /\ workers' = [workers EXCEPT ![h].status = "err", ![h].err = e]
    /\ UNCHANGED <<metadata, id, proof_generation, stop, svc, drop_handle, ret, branch, calls>>
    /\ UNCHANGED client_vars

\* the thread panics: JoinHandle::join then returns Err
WorkerPanic(h) ==
    /\ h \in DOMAIN workers
    /\ workers[h].status = "running"
    /\ workers' = [workers EXCEPT ![h].status = "panicked"]
    /\ UNCHANGED <<metadata, id, proof_generation, stop, svc, drop_handle, ret, branch, calls>>
    /\ UNCHANGED client_vars

----------------------------------------------------------------------------
(* PostService::gen_proof *)

\* JoinHandle::is_finished
is_finished(h) == workers[h].status # "running"

\* JoinHandle::join on a finished thread
join(h) == [workers EXCEPT ![h].joined = TRUE]

\* a bug: the recorded challenge is not compared with the requested one
same_challenge_unchecked(process, challenge) == TRUE

\* the condition of eyre::ensure! at service.rs:65
same_challenge(process, challenge) == process.challenge = challenge

\* challenge.try_into::<[u8; 32]>() succeeds
valid_challenge(challenge) == Len(challenge) = ChallengeLen

\* a bug: node_id is filled from the commitment ATX id
ProofMetadata_swapped(challenge, md) ==
    [challenge |-> challenge, node_id |-> md.commitment_atx_id,
     commitment_atx_id |-> md.commitment_atx_id, num_units |-> md.num_units,
     labels_per_unit |-> md.labels_per_unit]

\* the ProofMetadata built at service.rs:86
ProofMetadata(challenge, md) ==
    [challenge |-> challenge, node_id |-> md.node_id,
     commitment_atx_id |-> md.commitment_atx_id, num_units |-> md.num_units,
     labels_per_unit |-> md.labels_per_unit]

\* the match on the joined thread's result, service.rs:72-100; loadOk is whether
\* post::metadata::load(&self.datadir) succeeds
join_outcome(w, challenge, loadOk) ==
    IF w.status = "panicked" THEN RetPanic
    ELSE IF w.status = "ok"
         THEN IF ~loadOk THEN RetErr("loading POST metadata")
              ELSE IF ~valid_challenge(challenge) THEN RetErr("invalid challenge format")
              ELSE RetFinished(w.proof[1], ProofMetadata(challenge, metadata))
         ELSE RetErr(w.err)

\* a bug: a job whose worker has finished is dropped by a call for another
\* challenge
busy_different_challenge_frees(challenge) ==
    /\ ret' = RetErr("BusyDifferentChallenge")
    /\ branch' = "busy"
    /\ proof_generation' = IF is_finished(proof_generation[1].handle) THEN None
                           ELSE proof_generation
    /\ UNCHANGED <<workers, svc>>

\* service.rs:65-68: a job is recorded for another challenge
busy_different_challenge(challenge) ==
    /\ ret' = RetErr("BusyDifferentChallenge")
    /\ branch' = "busy"
    /\ UNCHANGED <<proof_generation, workers, svc>>

\* a bug: the process is taken only when the worker returned a proof
collect_result_keeps_failed(process, challenge, loadOk) ==
    /\ proof_generation' =
           IF workers[process.handle].status = "err" THEN proof_generation ELSE None
    /\ workers' = join(process.handle)
    /\ ret' = join_outcome(workers[process.handle], challenge, loadOk)
    /\ branch' = "collect"
    /\ svc' = IF workers[process.handle].status = "panicked" THEN "panicked" ELSE svc

\* a bug: the process is taken and its handle dropped without joining the thread
collect_result_detached(process, challenge, loadOk) ==
    /\ proof_generation' = None
    /\ workers' = workers
    /\ ret' = join_outcome(workers[process.handle], challenge, loadOk)
    /\ branch' = "collect"
    /\ svc' = IF workers[process.handle].status = "panicked" THEN "panicked" ELSE svc

\* service.rs:70-100: the worker has finished: take the process, join, report
collect_result(process, challenge, loadOk) ==
    /\ proof_generation' = None
    /\ workers' = join(process.handle)
    /\ ret' = join_outcome(workers[process.handle], challenge, loadOk)
    /\ branch' = "collect"
    /\ svc' = IF workers[process.handle].status = "panicked" THEN "panicked" ELSE svc

\* a bug: the process is taken before the worker is found unfinished
report_in_progress_taken ==
    /\ ret' = RetInProgress
    /\ branch' = "in_progress"
    /\ proof_generation' = None
    /\ UNCHANGED <<workers, svc>>

\* service.rs:101-104: the worker is still running
report_in_progress ==
    /\ ret' = RetInProgress
    /\ branch' = "in_progress"
    /\ UNCHANGED <<proof_generation, workers, svc>>

\* service.rs:107-110: no job is recorded and the challenge is not 32 bytes
reject_challenge ==
    /\ ret' = RetErr("invalid challenge format")
    /\ branch' = "reject"
    /\ UNCHANGED <<proof_generation, workers, svc>>

\* a bug: the worker is spawned and the process is not recorded
start_proof_generation_unrecorded(challenge) ==
    /\ workers' = Append(workers, Worker(challenge, Some(id)))
    /\ proof_generation' = None
    /\ ret' = RetInProgress
    /\ branch' = "start"
    /\ UNCHANGED svc

\* service.rs:111-128: no job is recorded: spawn the worker and record it
start_proof_generation(challenge) ==
    /\ workers' = Append(workers, Worker(challenge, Some(id)))
    /\ proof_generation' = Some([challenge |-> challenge, handle |-> Len(workers) + 1])
    /\ ret' = RetInProgress
    /\ branch' = "start"
    /\ UNCHANGED svc

gen_proof(challenge, loadOk) ==
    /\ calls' = calls + 1
    /\ UNCHANGED <<metadata, id, stop, drop_handle>>
    /\ IF proof_generation # None
       THEN LET process == proof_generation[1] IN
            IF ~same_challenge(process, challenge)
            THEN busy_different_challenge(challenge)
            ELSE IF is_finished(process.handle)
                 THEN collect_result(process, challenge, loadOk)
                 ELSE report_in_progress
       ELSE IF ~valid_challenge(challenge)
            THEN reject_challenge
            ELSE start_proof_generation(challenge)

----------------------------------------------------------------------------
(* impl Drop for PostService *)

\* service.rs:133-137: take the process and set the stop flag; the service is
\* dropped with the client that owns it
drop_begin ==
    /\ svc = "live"
    /\ cstate' = "Stopped"
    /\ IF proof_generation # None
       THEN /\ drop_handle' = Some(proof_generation[1].handle)
            /\ proof_generation' = None
            /\ stop' = TRUE
            /\ svc' = "joining"
       ELSE /\ svc' = "dropped"
            /\ UNCHANGED <<drop_handle, proof_generation, stop>>
    /\ UNCHANGED <<metadata, id, workers, ret, branch, calls>>
    /\ UNCHANGED <<max_retries, attempt, registers, request, verify_result, response, handled>>

\* service.rs:138: handle.join().unwrap() returns once the thread has terminated,
\* and panics when the thread panicked
drop_join ==
    /\ svc = "joining"
    /\ is_finished(drop_handle[1])
    /\ workers' = join(drop_handle[1])
    /\ svc' = IF workers[drop_handle[1]].status = "panicked"
              THEN "drop_panicked" ELSE "dropped"
    /\ drop_handle' = None
    /\ UNCHANGED <<metadata, id, proof_generation, stop, ret, branch, calls>>
    /\ UNCHANGED client_vars

----------------------------------------------------------------------------
(* The client: the reconnect loop and the request handler *)

\* NodeRequest { kind }: a GenProof request with its challenge, or no kind at all
NodeRequests ==
    { [kind |-> "GenProof", challenge |-> c] : c \in Challenges }
        \cup { [kind |-> "None", challenge |-> <<>>] }

\* GenProofResponse { status, proof, metadata }
GenProofResponse(status, proof, md) == [status |-> status, proof |-> proof, metadata |-> md]

\* a bug: the proof is sent whatever verify_proof returned
gen_proof_response_unverified(r, verifyOk) ==
    IF r.kind = "Finished"
    THEN GenProofResponse("Ok", r.proof, r.metadata)
    ELSE IF r.kind = "InProgress"
         THEN GenProofResponse("Ok", None, None)
         ELSE GenProofResponse("Error", None, None)

\* a bug: a failure of gen_proof is answered with status Ok
gen_proof_response_error_ok(r, verifyOk) ==
    IF r.kind = "Finished"
    THEN IF verifyOk
         THEN GenProofResponse("Ok", r.proof, r.metadata)
         ELSE GenProofResponse("Error", None, None)
    ELSE GenProofResponse("Ok", None, None)

\* the response to a GenProof request, from what gen_proof returned and, for
\* Finished, from what verify_proof returned
gen_proof_response(r, verifyOk) ==
    IF r.kind = "Finished"
    THEN IF verifyOk
         THEN GenProofResponse("Ok", r.proof, r.metadata)
         ELSE GenProofResponse("Error", None, None)
    ELSE IF r.kind = "InProgress"
         THEN GenProofResponse("Ok", None, None)
         ELSE GenProofResponse("Error", None, None)

\* a bug: a request with no kind is answered with status Ok
broken_request_response_ok == GenProofResponse("Ok", None, None)

\* the response to a request that is no GenProof request
broken_request_response == GenProofResponse("Error", None, None)

\* whether the handler calls verify_proof, and with what result
verify_proof(r, verifyOk) ==
    IF r.kind = "Finished" THEN (IF verifyOk THEN "ok" ELSE "failed") ELSE "none"

\* a bug: the client serves a connection on which it has not registered
client_connect_unregistered ==
    /\ svc = "live"
    /\ cstate = "Disconnected"
    /\ cstate' = "Serving"
    /\ UNCHANGED <<max_retries, attempt, registers, request, verify_result, response, handled>>
    /\ UNCHANGED svc_vars

\* Disconnected -> Connecting
client_connect ==
    /\ svc = "live"
    /\ cstate = "Disconnected"
    /\ cstate' = "Connecting"
    /\ UNCHANGED <<max_retries, attempt, registers, request, verify_result, response, handled>>
    /\ UNCHANGED svc_vars

\* Connecting -> Registered: the connection is up and Register is sent
client_register ==
    /\ svc = "live"
    /\ cstate = "Connecting"
    /\ cstate' = "Registered"
    /\ registers' = registers + 1
    /\ UNCHANGED <<max_retries, attempt, request, verify_result, response, handled>>
    /\ UNCHANGED svc_vars

\* Registered -> Serving
client_serve ==
    /\ svc = "live"
    /\ cstate = "Registered"
    /\ cstate' = "Serving"
    /\ UNCHANGED <<max_retries, attempt, registers, request, verify_result, response, handled>>
    /\ UNCHANGED svc_vars

\* a bug: the run loop gives up at the first failure although max_retries is not set
transport_error_gives_up ==
    /\ svc = "live"
    /\ cstate \in {"Connecting", "Registered", "Serving"}
    /\ attempt < MaxAttempts
    /\ attempt' = attempt + 1
    /\ cstate' = "Stopped"
    /\ registers' = 0
    /\ UNCHANGED <<max_retries, request, verify_result, response, handled>>
    /\ UNCHANGED svc_vars

\* the transport fails or the coordinator closes the stream
transport_error ==
    /\ svc = "live"
    /\ cstate \in {"Connecting", "Registered", "Serving"}
    /\ attempt < MaxAttempts
    /\ attempt' = attempt + 1
    /\ cstate' = IF max_retries # None /\ attempt' >= max_retries[1]
                 THEN "Stopped" ELSE "Disconnected"
    /\ registers' = 0
    /\ UNCHANGED <<max_retries, request, verify_result, response, handled>>
    /\ UNCHANGED svc_vars

\* Serving: a GenProof request is read, gen_proof is called and the response sent
handle_gen_proof(req, loadOk, verifyOk) ==
    /\ svc = "live"
    /\ cstate = "Serving"
    /\ handled < MaxRequests
    /\ req.kind = "GenProof"
    /\ gen_proof(req.challenge, loadOk)
    /\ request' = Some(req)
    /\ IF ret'.kind = "Panic"
       THEN /\ cstate' = "Stopped"
            /\ UNCHANGED <<verify_result, response, handled>>
       ELSE /\ cstate' = "Serving"
            /\ verify_result' = verify_proof(ret', verifyOk)
            /\ response' = Some(gen_proof_response(ret', verifyOk))
            /\ handled' = handled + 1
    /\ UNCHANGED <<max_retries, attempt, registers>>

\* Serving: a request that is no GenProof request is read and answered
handle_broken_request(req) ==
    /\ svc = "live"
    /\ cstate = "Serving"
    /\ handled < MaxRequests
    /\ req.kind # "GenProof"
    /\ request' = Some(req)
    /\ verify_result' = "none"
    /\ response' = Some(broken_request_response)
    /\ handled' = handled + 1
    /\ cstate' = "Serving"
    /\ UNCHANGED <<max_retries, attempt, registers>>
    /\ UNCHANGED svc_vars

----------------------------------------------------------------------------
(* The specification *)

(***************************************************************************)
(* watch_pid (service/src/main.rs): the thread that watches another        *)
(* process and the oneshot channel `term`.                                 *)
(***************************************************************************)

\* the statuses of a process that is still alive for watch_pid
Alive == {"Run", "Sleep"}

\* the watched process changes between statuses that are neither Zombie nor Dead
proc_schedule ==
    /\ pid_state \in Alive
    /\ pid_state' = IF pid_state = "Run" THEN "Sleep" ELSE "Run"
    /\ UNCHANGED <<term, wpc, wreason, polls>>

\* the watched process exits: a zombie until its parent reaps it, or dead
proc_exit ==
    /\ pid_state \in Alive
    /\ pid_state' \in {"Zombie", "Dead"}
    /\ UNCHANGED <<term, wpc, wreason, polls>>

\* the exited process is reaped: the PID no longer exists
proc_reap ==
    /\ pid_state \in {"Zombie", "Dead"}
    /\ pid_state' = "Gone"
    /\ UNCHANGED <<term, wpc, wreason, polls>>

\* a value is sent on the termination channel
term_send ==
    /\ term = "open"
    /\ term' = "sent"
    /\ UNCHANGED <<pid_state, wpc, wreason, polls>>

\* the sender of the termination channel is dropped without sending
term_close ==
    /\ term = "open"
    /\ term' = "closed"
    /\ UNCHANGED <<pid_state, wpc, wreason, polls>>

\* the loop condition sys.refresh_process(pid) and the status match: a PID that
\* is gone ends the loop, a zombie or dead process returns
watch_refresh_ignores_zombie ==
    /\ wpc = "refresh"
    /\ polls' = IF polls < MaxPolls THEN polls + 1 ELSE polls
    /\ IF pid_state = "Gone"
       THEN wpc' = "returned" /\ wreason' = "gone"
       ELSE wpc' = "try_recv" /\ UNCHANGED wreason
    /\ UNCHANGED <<pid_state, term>>

watch_refresh ==
    /\ wpc = "refresh"
    /\ polls' = IF polls < MaxPolls THEN polls + 1 ELSE polls
    /\ IF pid_state = "Gone"
       THEN wpc' = "returned" /\ wreason' = "gone"
       ELSE IF pid_state \in {"Zombie", "Dead"}
            THEN wpc' = "returned" /\ wreason' = "died"
            ELSE wpc' = "try_recv" /\ UNCHANGED wreason
    /\ UNCHANGED <<pid_state, term>>

\* term.try_recv(): Ok(_) and Err(Closed) return, Err(Empty) goes to sleep
watch_try_recv_ignores_closed ==
    /\ wpc = "try_recv"
    /\ IF term = "sent"
       THEN wpc' = "returned" /\ wreason' = "terminated"
       ELSE wpc' = "sleep" /\ UNCHANGED wreason
    /\ UNCHANGED <<pid_state, term, polls>>

watch_try_recv ==
    /\ wpc = "try_recv"
    /\ IF term \in {"sent", "closed"}
       THEN wpc' = "returned" /\ wreason' = "terminated"
       ELSE wpc' = "sleep" /\ UNCHANGED wreason
    /\ UNCHANGED <<pid_state, term, polls>>

\* std::thread::sleep(interval) ends and the loop condition is evaluated again
watch_sleep ==
    /\ wpc = "sleep"
    /\ wpc' = "refresh"
    /\ UNCHANGED <<pid_state, term, wreason, polls>>

(***************************************************************************)
(* Scrypter (scrypt-ocl/src/lib.rs): labels of a range computed in batches *)
(* of global_work_size by the OpenCL kernel, with the VRF nonce search.    *)
(***************************************************************************)

LABEL_SIZE == 16
ENTIRE_LABEL_SIZE == 32

Min(a, b) == IF a < b THEN a ELSE b

\* `a < b` on byte slices: the lexicographic order
LtBytes(a, b) ==
    \/ \E k \in 1..Min(Len(a), Len(b)) : a[k] < b[k] /\ \A j \in 1..(k - 1) : a[j] = b[j]
    \/ Len(a) < Len(b) /\ \A j \in 1..Len(a) : a[j] = b[j]

\* slice::chunks(n): the last chunk may be shorter
chunks(s, n) ==
    [c \in 1..((Len(s) + n - 1) \div n) |-> SubSeq(s, (c - 1) * n + 1, Min(c * n, Len(s)))]

\* slice::chunks_exact(n): a shorter remainder is left out
chunks_exact(s, n) ==
    [c \in 1..(Len(s) \div n) |-> SubSeq(s, (c - 1) * n + 1, c * n)]

\* the 32-byte output of the kernel for label index: a fixed function of the
\* commitment and N (here: seed) and of the index, different for every index
KernelHash(index) == ((index + 1) * (index + 3) * (39 + 2 * seed) + 11 * seed) % 1021

KernelByte(index, k) ==
    CASE k = 1 -> KernelHash(index) \div 256
      [] k = 2 -> KernelHash(index) % 256
      [] k = 3 -> index % 256
      [] k = 4 -> (index \div 256) % 256
      [] k = 17 -> (KernelHash(index) * 7) % 256
      [] OTHER -> 170

Kernel(index) == [k \in 1..ENTIRE_LABEL_SIZE |-> KernelByte(index, k)]

\* self.output after kernel.enq() with arg 1 = start_index: global_work_size
\* outputs of 32 bytes each
output(start_index) ==
    [k \in 1..(global_work_size * ENTIRE_LABEL_SIZE) |->
        KernelByte(start_index + (k - 1) \div ENTIRE_LABEL_SIZE, ((k - 1) % ENTIRE_LABEL_SIZE) + 1)]

\* self.output.read(dst).enq(): fills dst, as long as it is, from the start of
\* the device buffer
read(buffer, dst_len) == SubSeq(buffer, 1, dst_len)

buffer_len(range) == (range.end - range.start) * LABEL_SIZE

RECURSIVE scan_from(_, _, _, _)
scan_from(labels_chunks, chunk_id, difficulty, nonce) ==
    IF chunk_id > Len(labels_chunks) THEN nonce
    ELSE IF LtBytes(labels_chunks[chunk_id], difficulty)
         THEN scan_from(labels_chunks, chunk_id + 1, labels_chunks[chunk_id],
                        Some([index |-> chunk_id - 1, label |-> labels_chunks[chunk_id]]))
         ELSE scan_from(labels_chunks, chunk_id + 1, difficulty, nonce)

\* a scan that never lowers its difficulty: the last label below it is kept
scan_for_vrf_nonce_last(labels_bytes, difficulty) ==
    LET labels_chunks == chunks(labels_bytes, ENTIRE_LABEL_SIZE)
        below == {c \in 1..Len(labels_chunks) : LtBytes(labels_chunks[c], difficulty)}
    IN  IF below = {} THEN None
        ELSE LET last == CHOOSE c \in below : \A d \in below : d <= c
             IN  Some([index |-> last - 1, label |-> labels_chunks[last]])

scan_for_vrf_nonce(labels_bytes, difficulty) ==
    scan_from(chunks(labels_bytes, ENTIRE_LABEL_SIZE), 1, difficulty, None)

\* the chunks of out the loop of scrypt goes through
NumChunks == (Len(out) + global_work_size * LABEL_SIZE - 1) \div (global_work_size * LABEL_SIZE)

\* scrypt is entered: the length of out is checked against the range, and
\* labels_buffer is allocated
scrypt_call ==
    /\ spc = "idle"
    /\ IF Len(out) # buffer_len(labels)
       THEN spc' = "err" /\ sret' = "InvalidBufferSize" /\ UNCHANGED labels_buffer
       ELSE /\ spc' = "running"
            /\ labels_buffer' = Rep(global_work_size * LABEL_SIZE, 0)
            /\ UNCHANGED sret
    /\ UNCHANGED <<global_work_size, vrf_difficulty, vrf_nonce, seed, labels, out, batch,
                   returned>>

\* one turn of the loop over out.chunks_mut(global_work_size * LABEL_SIZE)
scrypt_batch ==
    /\ spc = "running"
    /\ batch < NumChunks
    /\ LET start_index == labels.start + global_work_size * batch
           lo == batch * global_work_size * LABEL_SIZE
           hi == Min(lo + global_work_size * LABEL_SIZE, Len(out))
           copied == Min(Len(labels_buffer) \div ENTIRE_LABEL_SIZE, (hi - lo) \div LABEL_SIZE)
       IN  /\ labels_buffer' = read(output(start_index), Len(labels_buffer))
           /\ vrf_nonce' =
                 IF vrf_difficulty = None THEN vrf_nonce
                 ELSE LET new_best_nonce ==
                              IF vrf_nonce # None
                              THEN scan_for_vrf_nonce(labels_buffer', vrf_nonce[1].label)
                              ELSE scan_for_vrf_nonce(labels_buffer', vrf_difficulty[1])
                      IN  IF new_best_nonce # None
                          THEN Some([index |-> new_best_nonce[1].index + start_index,
                                     label |-> new_best_nonce[1].label])
                          ELSE vrf_nonce
           /\ out' = [k \in 1..Len(out) |->
                        IF k > lo /\ k <= lo + copied * LABEL_SIZE
                        THEN labels_buffer'[((k - lo - 1) \div LABEL_SIZE) * ENTIRE_LABEL_SIZE
                                            + ((k - lo - 1) % LABEL_SIZE) + 1]
                        ELSE out[k]]
    /\ batch' = batch + 1
    /\ UNCHANGED <<global_work_size, vrf_difficulty, seed, labels, spc, sret, returned>>

\* set_arg, kernel.enq() or the read fails: scrypt returns the error
scrypt_batch_fails ==
    /\ spc = "running"
    /\ batch < NumChunks
    /\ spc' = "err"
    /\ sret' = "OclError"
    /\ UNCHANGED <<global_work_size, vrf_difficulty, vrf_nonce, seed, labels, out, labels_buffer,
                   batch, returned>>

\* the loop is over: Ok(self.vrf_nonce)
scrypt_return ==
    /\ spc = "running"
    /\ batch = NumChunks
    /\ spc' = "ok"
    /\ returned' = Append(returned, vrf_nonce)
    /\ UNCHANGED <<global_work_size, vrf_difficulty, vrf_nonce, seed, labels, out, labels_buffer,
                   batch, sret>>

\* the ranges of a further call: one label, or one batch and one label more
AgainLens == {1, global_work_size + 1}

\* the same Scrypter is given another range and its zeroed buffer: the range
\* from 0 or the one after the last; self.vrf_nonce stays as it is
scrypt_again ==
    /\ spc = "ok"
    /\ Len(returned) < MaxCalls
    /\ \E start \in {0, labels.end}, len \in AgainLens :
          /\ labels' = [start |-> start, end |-> start + len]
          /\ out' = Rep(len * LABEL_SIZE, 0)
    /\ labels_buffer' = <<>>
    /\ batch' = 0
    /\ spc' = "idle"
    /\ UNCHANGED <<global_work_size, vrf_difficulty, vrf_nonce, seed, sret, returned>>

(***************************************************************************)
(* find_k2_pow and find_k3_pow (src/pow.rs): rayon's find_first over the   *)
(* range of p, evaluated by several workers in any order.                  *)
(***************************************************************************)

\* the range 0u64..u64::MAX, cut at MaxPow
PowRange == 0..(MaxPow - 1)

\* the predicate of the closure given to find_first
satisfies(p) == pow_hash[p] < pow_difficulty

\* find_any would be over as soon as some worker has found a match
find_any_over == best # None \/ checked = PowRange

\* find_first is over when no p below the best match, or no p at all, is left
find_first_over ==
    IF best # None THEN \A p \in PowRange : p < best[1] => p \in checked
    ELSE checked = PowRange

\* a worker evaluates the predicate for a p nobody has evaluated; a match
\* replaces the best match only when it is lower
pow_worker_check(p) ==
    /\ ppc = "searching"
    /\ ~find_first_over
    /\ p \notin checked
    /\ checked' = checked \cup {p}
    /\ best' = IF satisfies(p) /\ (best = None \/ p < best[1]) THEN Some(p) ELSE best
    /\ UNCHANGED <<pow_fn, pow_hash, pow_difficulty, ppc, pow_results>>

\* find_first returns Some(p) and the function returns p
pow_return ==
    /\ ppc = "searching"
    /\ find_first_over
    /\ best # None
    /\ ppc' = "returned"
    /\ pow_results' = Append(pow_results, best[1])
    /\ UNCHANGED <<pow_fn, pow_hash, pow_difficulty, checked, best>>

\* find_first returns None: expect("looking for k2pow") panics
pow_expect_panics ==
    /\ ppc = "searching"
    /\ find_first_over
    /\ best = None
    /\ ppc' = "panicked"
    /\ UNCHANGED <<pow_fn, pow_hash, pow_difficulty, checked, best, pow_results>>

\* the function is called again with the same inputs
pow_call_again ==
    /\ ppc = "returned"
    /\ Len(pow_results) < MaxRuns
    /\ ppc' = "searching"
    /\ checked' = {}
    /\ best' = None
    /\ UNCHANGED <<pow_fn, pow_hash, pow_difficulty, pow_results>>

(***************************************************************************)
(* PoW::prove and PoW::verify (src/pow/randomx.rs).  A u64 is kept as its  *)
(* four 16-bit limbs, lowest first.                                        *)
(***************************************************************************)

\* u64::to_le_bytes
to_le_bytes(x) ==
    [k \in 1..8 |-> IF k % 2 = 1 THEN x[(k + 1) \div 2] % 256 ELSE x[k \div 2] \div 256]

\* the same bytes, highest first
to_be_bytes(x) == [k \in 1..8 |-> to_le_bytes(x)[9 - k]]

\* the u64 values looked at: low and high bytes set, below and above 2^56
PowNonces ==
    {<<a, 0, c, d>> : a \in 0..MaxNonceLow, c \in {0, 65535}, d \in {0, 255, 256, 65535}}

\* (0..2u64.pow(56)): the top byte is zero
ProveRange == {x \in PowNonces : x[4] < 256}

RECURSIVE WeightedSum(_, _)
WeightedSum(bytes, k) ==
    IF k > Len(bytes) THEN 0 ELSE (2 * k + 1) * bytes[k] + WeightedSum(bytes, k + 1)

\* vm.calculate_hash(input): 32 bytes, a fixed function of the VM and the input
calculate_hash(input) ==
    LET h == (WeightedSum(input, 1) + 97 * rx_seed) % 251
    IN  <<h, (h * 7) % 256>> \o Rep(30, 170)

\* prove: pow_input with its first 7 bytes overwritten for pow_nonce
prove_pow_input(pow_nonce) ==
    LET pow_input == Rep(7, 0) \o <<nonce_group>> \o rx_challenge
    IN  [k \in 1..Len(pow_input) |-> IF k <= 7 THEN to_le_bytes(pow_nonce)[k] ELSE pow_input[k]]

\* verify with the bytes of pow taken from the wrong end
verify_pow_input_be(pow) == SubSeq(to_be_bytes(pow), 1, 7) \o <<nonce_group>> \o rx_challenge

\* verify with all 8 bytes of pow in its input
verify_pow_input_u64(pow) == to_le_bytes(pow) \o <<nonce_group>> \o rx_challenge

\* verify: [&pow.to_le_bytes()[0..7], [nonce_group], challenge].concat()
verify_pow_input(pow) == SubSeq(to_le_bytes(pow), 1, 7) \o <<nonce_group>> \o rx_challenge

\* what the workers of prove keep after filter_map: without a VM nothing
Hashed == IF rx_vm_ok THEN ProveRange ELSE {}

\* PoW::prove: find_any returns some pow_nonce with a hash below difficulty
prove ==
    /\ rxpc = "new"
    /\ rxpc' = "proved"
    /\ LET found == {n \in Hashed : LtBytes(calculate_hash(prove_pow_input(n)), rx_difficulty)}
       IN  IF found = {}
           THEN prove_ret' = [kind |-> "PoWNotFound", pow |-> <<0, 0, 0, 0>>]
           ELSE \E n \in found : prove_ret' = [kind |-> "Ok", pow |-> n]
    /\ UNCHANGED <<rx_vm_ok, rx_seed, nonce_group, rx_challenge, rx_difficulty, rx_pow, verify_ret>>

\* PoW::verify(pow, nonce_group, challenge, difficulty)
verify(pow) ==
    /\ rxpc = "proved"
    /\ rxpc' = "verified"
    /\ rx_pow' = pow
    /\ verify_ret' =
          IF ~rx_vm_ok THEN "Internal"
          ELSE IF ~LtBytes(calculate_hash(verify_pow_input(pow)), rx_difficulty)
               THEN "InvalidPoW"
               ELSE "Ok"
    /\ UNCHANGED <<rx_vm_ok, rx_seed, nonce_group, rx_challenge, rx_difficulty, prove_ret>>

(***************************************************************************)
(* generate_proof and Verifier::verify (prove.rs, verification.rs), after  *)
(* sections 4.E, 4.H and 4.I of the specification.  The 64-bit nonce value *)
(* is kept with ValueBits bits, its most significant byte with MsbBits.    *)
(***************************************************************************)

\* bit t of x
Bit(x, t) == (x \div 2^t) % 2

RECURSIVE Log2Ceil(_)
Log2Ceil(n) == IF n <= 1 THEN 0 ELSE 1 + Log2Ceil((n + 1) \div 2)

\* bits of one packed index: ceil(log2(num_labels))
IndexBits == Log2Ceil(num_labels)

\* T = floor(k1 * 2^64 / num_labels)
proving_difficulty(labels_count, k1) == (k1 * 2^ValueBits) \div labels_count

\* v(n, i): the nonce value of label i under nonce n, a fixed function of the
\* challenge and the label
nonce_value(n, i) ==
    IF n < pv_dry THEN 2^ValueBits - 1
    ELSE ((n + 1) * (i + 2) * (2 * pv_seed + 1) + 3 * i + n) % 2^ValueBits

\* the packed form of indices with a given width: a little-endian bit stream,
\* zero-padded to the next byte
pack_with(indices, bits) ==
    LET nbits == Len(indices) * bits
        stream_bit(j) == IF j < nbits THEN Bit(indices[j \div bits + 1], j % bits) ELSE 0
        byte[t \in 0..8, b \in 1..((nbits + 7) \div 8)] ==
            IF t = 0 THEN 0 ELSE byte[t - 1, b] + stream_bit(8 * (b - 1) + t - 1) * 2^(t - 1)
    IN  [b \in 1..((nbits + 7) \div 8) |-> byte[8, b]]

\* packing with one bit too few for each index
pack_indices_narrow(indices) == pack_with(indices, IndexBits - 1)

pack_indices(indices) == pack_with(indices, IndexBits)

\* the k2 indices of a packed form
unpack_indices(bytes, k2) ==
    LET packed_bit(j) == Bit(bytes[j \div 8 + 1], j % 8)
        value[t \in 0..IndexBits, m \in 1..k2] ==
            IF t = 0 THEN 0
            ELSE value[t - 1, m] + packed_bit((m - 1) * IndexBits + t - 1) * 2^(t - 1)
    IN  [m \in 1..k2 |-> value[IndexBits, m]]

\* the packed form has the length of k2 indices and its trailing bits are zero
well_packed(bytes, k2) ==
    /\ Len(bytes) = (k2 * IndexBits + 7) \div 8
    /\ \A j \in (k2 * IndexBits)..(8 * Len(bytes) - 1) : Bit(bytes[j \div 8 + 1], j % 8) = 0

\* collected[n] after the whole data set was streamed: the indices of the
\* labels under the difficulty, ascending
RECURSIVE collect(_, _, _)
collect(n, i, difficulty) ==
    IF i >= num_labels THEN <<>>
    ELSE IF nonce_value(n, i) < difficulty
         THEN <<i>> \o collect(n, i + 1, difficulty)
         ELSE collect(n, i + 1, difficulty)

\* find_k2_pow and find_k3_pow for the proof: the lowest p under the difficulty
lowest_pow == IF \E p \in PowRange : satisfies(p)
              THEN Some(CHOOSE p \in PowRange : satisfies(p) /\ \A q \in 0..(p - 1) : ~satisfies(q))
              ELSE None

\* the verifier's comparison of a nonce value with the difficulty: the most
\* significant byte first, the rest only when that byte is equal
below_difficulty(v, difficulty) ==
    LET lsb_range == 2^(ValueBits - MsbBits)
        v_msb == v \div lsb_range
        difficulty_msb == difficulty \div lsb_range
    IN  IF v_msb < difficulty_msb THEN TRUE
        ELSE IF v_msb > difficulty_msb THEN FALSE
        ELSE v % lsb_range < difficulty % lsb_range

NoProof == [nonce |-> 0, indices |-> <<>>, pow |-> <<0, 0, 0, 0>>]

\* generate_proof, one window of 16 nonces: the data set is streamed, the
\* first nonce to reach k2 indices is sealed (the smaller nonce when two reach
\* it on the same label), and its RandomX PoW is asked for
scan_window ==
    /\ pvpc = "scanning"
    /\ IF cfg.k1 >= num_labels
       THEN /\ pvpc' = "failed"
            /\ UNCHANGED <<window, pv_proof, nonce_group, rxpc>>
       ELSE LET difficulty == proving_difficulty(num_labels, cfg.k1)
                nonces == window..(window + 15)
                complete == {n \in nonces : Len(collect(n, 0, difficulty)) >= cfg.k2}
                reached(n) == collect(n, 0, difficulty)[cfg.k2]
            IN  IF complete = {}
                THEN /\ IF window + 16 < nonces_total
                        THEN window' = window + 16 /\ UNCHANGED pvpc
                        ELSE pvpc' = "failed" /\ UNCHANGED window
                     /\ UNCHANGED <<pv_proof, nonce_group, rxpc>>
                ELSE LET n == CHOOSE c \in complete : \A d \in complete :
                                    \/ reached(c) < reached(d)
                                    \/ reached(c) = reached(d) /\ c <= d
                     IN  /\ IF lowest_pow = None
                            THEN pvpc' = "panicked" /\ UNCHANGED <<pv_proof, nonce_group, rxpc>>
                            ELSE /\ pv_proof' = [nonce |-> n,
                                              indices |-> pack_indices(SubSeq(collect(n, 0, difficulty),
                                                                              1, cfg.k2)),
                                              pow |-> <<0, 0, 0, 0>>]
                                 /\ nonce_group' = n \div 16
                                 /\ rxpc' = "new"
                                 /\ pvpc' = "pow"
                         /\ UNCHANGED window
    /\ UNCHANGED <<num_labels, cfg, nonces_total, pv_seed, pv_dry, v_ret, tampered>>
    /\ UNCHANGED <<rx_vm_ok, rx_seed, rx_challenge, rx_difficulty, prove_ret, rx_pow, verify_ret>>
    /\ UNCHANGED pow_vars

\* generate_proof returns the proof with the pow found, or the error of prove
seal ==
    /\ pvpc = "pow"
    /\ rxpc = "proved"
    /\ IF prove_ret.kind = "Ok"
       THEN pv_proof' = [pv_proof EXCEPT !.pow = prove_ret.pow] /\ pvpc' = "proved"
       ELSE pvpc' = "failed" /\ UNCHANGED pv_proof
    /\ UNCHANGED <<num_labels, cfg, nonces_total, pv_seed, pv_dry, window, v_ret, tampered>>
    /\ UNCHANGED <<rx_vars, pow_vars>>

\* Verifier::verify, steps 1 to 6: the indices, their nonce values and the
\* scrypt PoWs are checked, then the RandomX PoW is to be verified
verifier_check ==
    /\ pvpc = "proved"
    /\ LET difficulty == proving_difficulty(num_labels, cfg.k1)
           indices == unpack_indices(pv_proof.indices, cfg.k2)
       IN  v_ret' =
              IF ~well_packed(pv_proof.indices, cfg.k2) THEN "InvalidIndices"
              ELSE IF \E m \in 1..cfg.k2 : indices[m] >= num_labels THEN "InvalidIndex"
              ELSE IF \E m \in 2..cfg.k2 : indices[m - 1] >= indices[m] THEN "InvalidIndex"
              ELSE IF \E m \in 1..cfg.k2 :
                          ~below_difficulty(nonce_value(pv_proof.nonce, indices[m]), difficulty)
                   THEN "InvalidLabel"
              ELSE IF lowest_pow = None \/ ~satisfies(lowest_pow[1]) THEN "InvalidPoW"
              ELSE "pending"
    /\ pvpc' = IF v_ret' = "pending" THEN "verify_pow" ELSE "verified"
    /\ nonce_group' = pv_proof.nonce \div 16
    /\ UNCHANGED <<num_labels, cfg, nonces_total, pv_seed, pv_dry, window, pv_proof, tampered>>
    /\ UNCHANGED <<rx_vm_ok, rx_seed, rx_challenge, rx_difficulty, prove_ret, rx_pow, verify_ret,
                   rxpc>>
    /\ UNCHANGED pow_vars

\* Verifier::verify, step 7: the result of PoW::verify is the result
verifier_result ==
    /\ pvpc = "verify_pow"
    /\ rxpc = "verified"
    /\ v_ret' = verify_ret
    /\ pvpc' = "verified"
    /\ UNCHANGED <<num_labels, cfg, nonces_total, pv_seed, pv_dry, window, pv_proof, tampered>>
    /\ UNCHANGED <<rx_vars, pow_vars>>

\* u64 `x - 1` on the limbs, wrapping at zero
wrapping_dec(x) ==
    [k \in 1..4 |-> IF \A j \in 1..(k - 1) : x[j] = 0
                    THEN (IF x[k] = 0 THEN 65535 ELSE x[k] - 1)
                    ELSE x[k]]

\* the test's `invalid_proof.pow -= 1` on an accepted proof, to be verified
\* again: at pow = 0 the subtraction overflows, which panics in a build with
\* overflow checks and wraps in one without
tamper_pow ==
    /\ pvpc = "verified"
    /\ v_ret = "Ok"
    /\ ~tampered
    /\ tampered' = TRUE
    /\ \/ /\ pv_proof.pow = <<0, 0, 0, 0>>
          /\ pvpc' = "panicked"
          /\ UNCHANGED <<pv_proof, rxpc>>
       \/ /\ pv_proof' = [pv_proof EXCEPT !.pow = wrapping_dec(pv_proof.pow)]
          /\ pvpc' = "proved"
          /\ rxpc' = "proved"
    /\ UNCHANGED <<num_labels, cfg, nonces_total, pv_seed, pv_dry, window, v_ret>>
    /\ UNCHANGED <<rx_vm_ok, rx_seed, nonce_group, rx_challenge, rx_difficulty, prove_ret, rx_pow,
                   verify_ret>>
    /\ UNCHANGED pow_vars

(***************************************************************************)
(* parse_nonces (service/src/main.rs): the value parser of --nonces.       *)
(***************************************************************************)

\* the value of a decimal digit, -1 for any other character
DigitValue(c) ==
    CASE c = "0" -> 0 [] c = "1" -> 1 [] c = "2" -> 2 [] c = "3" -> 3 [] c = "4" -> 4
      [] c = "5" -> 5 [] c = "6" -> 6 [] c = "7" -> 7 [] c = "8" -> 8 [] c = "9" -> 9
      [] OTHER -> -1

RECURSIVE DecimalValue(_, _)
DecimalValue(digits, acc) ==
    IF digits = <<>> THEN acc
    ELSE DecimalValue(Tail(digits), 10 * acc + DigitValue(Head(digits)))

\* str::parse::<usize>: an optional "+", then one or more decimal digits
parse_usize(arg) ==
    LET digits == IF arg # <<>> /\ Head(arg) = "+" THEN Tail(arg) ELSE arg
    IN  IF digits = <<>> \/ \E k \in 1..Len(digits) : DigitValue(digits[k]) < 0
        THEN None
        ELSE Some(DecimalValue(digits, 0))

\* the two ensure! with the second bound one group too high
ensure_nonces_loose(nonces) == nonces % 16 = 0 /\ nonces \div 16 <= 257

\* the two ensure! of parse_nonces
ensure_nonces(nonces) == nonces % 16 = 0 /\ nonces \div 16 <= 256

parse_nonces ==
    /\ pnpc = "called"
    /\ pnpc' = "returned"
    /\ nonces_ret' = IF parse_usize(nonces_arg) = None THEN [kind |-> "Err", nonces |-> 0]
                     ELSE IF ~ensure_nonces(parse_usize(nonces_arg)[1])
                          THEN [kind |-> "Err", nonces |-> 0]
                          ELSE [kind |-> "Ok", nonces |-> parse_usize(nonces_arg)[1]]
    /\ UNCHANGED nonces_arg

\* PostService::new succeeded (the metadata was loaded) and the client was built
ServiceInit ==
    /\ metadata \in Metadatas
    /\ id = metadata.node_id
    /\ proof_generation = None
    /\ stop = FALSE
    /\ workers = <<>>
    /\ svc = "live"
    /\ drop_handle = None
    /\ ret = RetNone
    /\ branch = "none"
    /\ calls = 0
    /\ cstate = "Disconnected"
    /\ max_retries \in {None, Some(1), Some(2)}
    /\ attempt = 0
    /\ registers = 0
    /\ request = None
    /\ verify_result = "none"
    /\ response = None
    /\ handled = 0

\* no PID is watched
WatchIdle ==
    /\ pid_state = "Gone"
    /\ term = "open"
    /\ wpc = "returned"
    /\ wreason = "none"
    /\ polls = 0

\* no Scrypter is built
ScryptIdle ==
    /\ global_work_size = 0
    /\ vrf_difficulty = None
    /\ vrf_nonce = None
    /\ seed = 0
    /\ labels = [start |-> 0, end |-> 0]
    /\ out = <<>>
    /\ labels_buffer = <<>>
    /\ batch = 0
    /\ spc = "ok"
    /\ sret = "none"
    /\ returned = <<>>

\* no scrypt PoW is searched
PowIdle ==
    /\ pow_fn = "none"
    /\ pow_hash = <<>>
    /\ pow_difficulty = 0
    /\ checked = {}
    /\ best = None
    /\ ppc = "returned"
    /\ pow_results = <<>>

\* no RandomX PoW is built
RxIdle ==
    /\ rx_vm_ok = FALSE
    /\ rx_seed = 0
    /\ nonce_group = 0
    /\ rx_challenge = <<>>
    /\ rx_difficulty = <<>>
    /\ prove_ret = [kind |-> "none", pow |-> <<0, 0, 0, 0>>]
    /\ rx_pow = <<0, 0, 0, 0>>
    /\ verify_ret = "none"
    /\ rxpc = "verified"

\* no proof is generated or verified
ProveIdle ==
    /\ num_labels = 0
    /\ cfg = [k1 |-> 0, k2 |-> 0]
    /\ nonces_total = 0
    /\ pv_seed = 0
    /\ pv_dry = 0
    /\ window = 0
    /\ pv_proof = NoProof
    /\ pvpc = "verified"
    /\ v_ret = "none"
    /\ tampered = FALSE

\* parse_nonces is not called
ParseIdle ==
    /\ nonces_arg = <<>>
    /\ nonces_ret = [kind |-> "none", nonces |-> 0]
    /\ pnpc = "returned"

\* no generate_proof thread is observed
GpIdle ==
    /\ stop_flag = FALSE
    /\ gp_phase = "done"
    /\ gp_window = 0
    /\ gp_pos = 0
    /\ gp_hit = [window |-> 0, chunk |-> 0]
    /\ gp_sol = [k2 |-> 0, k3 |-> 0, rx |-> 0]
    /\ gp_ret = "none"
    /\ shutdown = "dropped"

Init == ServiceInit /\ WatchIdle /\ ScryptIdle /\ PowIdle /\ RxIdle /\ ProveIdle /\ ParseIdle /\ GpIdle

Next ==
    \/ \E h \in DOMAIN workers, proof \in Proofs : WorkerFinishOk(h, proof) /\ UNCHANGED non_service_vars
    \/ \E h \in DOMAIN workers, e \in WorkerErrors \cup {"Cancelled"} : WorkerFinishErr(h, e) /\ UNCHANGED non_service_vars
    \/ \E h \in DOMAIN workers : WorkerPanic(h) /\ UNCHANGED non_service_vars
    \/ drop_begin /\ UNCHANGED non_service_vars
    \/ drop_join /\ UNCHANGED non_service_vars
    \/ client_connect /\ UNCHANGED non_service_vars
    \/ client_register /\ UNCHANGED non_service_vars
    \/ client_serve /\ UNCHANGED non_service_vars
    \/ transport_error /\ UNCHANGED non_service_vars
    \/ \E req \in NodeRequests, loadOk \in BOOLEAN, verifyOk \in BOOLEAN :
          handle_gen_proof(req, loadOk, verifyOk) /\ UNCHANGED non_service_vars
    \/ \E req \in NodeRequests : handle_broken_request(req) /\ UNCHANGED non_service_vars

Spec == Init /\ [][Next]_vars

\* the client task is scheduled: a pending connect, register or serve step is taken
SpecClientFair ==
    /\ Spec
    /\ WF_vars(client_connect /\ UNCHANGED non_service_vars)
    /\ WF_vars(client_register /\ UNCHANGED non_service_vars)
    /\ WF_vars(client_serve /\ UNCHANGED non_service_vars)

\* the service and its client are not used: they stay as constructed
ServiceIdle ==
    /\ ServiceInit
    /\ metadata = CHOOSE m \in Metadatas : TRUE
    /\ max_retries = None

\* watch_pid(pid, interval, term) is called: the PID may or may not exist
WatchInit ==
    /\ pid_state \in Alive \cup {"Gone"}
    /\ term = "open"
    /\ wpc = "refresh"
    /\ wreason = "none"
    /\ polls = 0

InitWatch == ServiceIdle /\ WatchInit /\ ScryptIdle /\ PowIdle /\ RxIdle /\ ProveIdle /\ ParseIdle /\ GpIdle

NextWatch ==
    \/ proc_schedule /\ UNCHANGED non_watch_vars
    \/ proc_exit /\ UNCHANGED non_watch_vars
    \/ proc_reap /\ UNCHANGED non_watch_vars
    \/ term_send /\ UNCHANGED non_watch_vars
    \/ term_close /\ UNCHANGED non_watch_vars
    \/ watch_refresh /\ UNCHANGED non_watch_vars
    \/ watch_try_recv /\ UNCHANGED non_watch_vars
    \/ watch_sleep /\ UNCHANGED non_watch_vars

\* the watcher runs on a thread of its own: a step it can take is taken
SpecWatch ==
    /\ InitWatch
    /\ [][NextWatch]_vars
    /\ WF_vars(watch_refresh /\ UNCHANGED non_watch_vars)
    /\ WF_vars(watch_try_recv /\ UNCHANGED non_watch_vars)
    /\ WF_vars(watch_sleep /\ UNCHANGED non_watch_vars)

\* the difficulties of the initializer and of the test searching_for_vrf_nonce
VrfDifficulties == {Rep(32, 255), <<0, 31>> \o Rep(30, 255)}

\* Scrypter::new succeeded, and the caller has its range and its zeroed buffer,
\* of the length of the range or one label longer
ScryptInit ==
    /\ \E max_wg_size \in 1..MaxWgSize : global_work_size = max_wg_size * 64
    /\ vrf_difficulty \in {None} \cup {Some(d) : d \in VrfDifficulties}
    /\ vrf_nonce = None
    /\ seed \in 1..MaxSeed
    /\ \E start \in 0..MaxStart, len \in 0..MaxLabels, extra \in 0..1 :
          /\ labels = [start |-> start, end |-> start + len]
          /\ out = Rep((len + extra) * LABEL_SIZE, 0)
    /\ labels_buffer = <<>>
    /\ batch = 0
    /\ spc = "idle"
    /\ sret = "none"
    /\ returned = <<>>

InitScrypt == ServiceIdle /\ WatchIdle /\ ScryptInit /\ PowIdle /\ RxIdle /\ ProveIdle /\ ParseIdle /\ GpIdle

NextScrypt ==
    \/ scrypt_call /\ UNCHANGED non_scrypt_vars
    \/ scrypt_batch /\ UNCHANGED non_scrypt_vars
    \/ scrypt_batch_fails /\ UNCHANGED non_scrypt_vars
    \/ scrypt_return /\ UNCHANGED non_scrypt_vars

SpecScrypt == InitScrypt /\ [][NextScrypt]_vars

\* one Scrypter used for several calls of scrypt
NextScryptCalls ==
    \/ scrypt_call /\ UNCHANGED non_scrypt_vars
    \/ scrypt_batch /\ UNCHANGED non_scrypt_vars
    \/ scrypt_batch_fails /\ UNCHANGED non_scrypt_vars
    \/ scrypt_return /\ UNCHANGED non_scrypt_vars
    \/ scrypt_again /\ UNCHANGED non_scrypt_vars

SpecScryptCalls == InitScrypt /\ [][NextScryptCalls]_vars

\* find_k2_pow or find_k3_pow is called: its inputs fix the hash of every p
PowInit ==
    /\ pow_fn \in {"find_k2_pow", "find_k3_pow"}
    /\ pow_hash \in [PowRange -> 0..MaxHash]
    /\ pow_difficulty \in 0..MaxHash
    /\ checked = {}
    /\ best = None
    /\ ppc = "searching"
    /\ pow_results = <<>>

InitPow == ServiceIdle /\ WatchIdle /\ ScryptIdle /\ PowInit /\ RxIdle /\ ProveIdle /\ ParseIdle /\ GpIdle

NextPow ==
    \/ \E p \in PowRange : pow_worker_check(p) /\ UNCHANGED non_pow_vars
    \/ pow_return /\ UNCHANGED non_pow_vars
    \/ pow_expect_panics /\ UNCHANGED non_pow_vars
    \/ pow_call_again /\ UNCHANGED non_pow_vars

SpecPow == InitPow /\ [][NextPow]_vars

\* the difficulties of test_pow, of test_generate_and_verify, and one no hash is below
RxDifficulties == {<<15>> \o Rep(31, 255), Rep(32, 255), Rep(32, 0)}

\* PoW::new succeeded; the caller has a nonce group, a challenge and a difficulty
RxInit ==
    /\ rx_vm_ok \in BOOLEAN
    /\ rx_seed \in 1..MaxRxSeed
    /\ nonce_group \in {0, 7}
    /\ rx_challenge \in {<<104, 101, 108, 108, 111, 33, 33, 33>>, Rep(8, 0)}
    /\ rx_difficulty \in RxDifficulties
    /\ prove_ret = [kind |-> "none", pow |-> <<0, 0, 0, 0>>]
    /\ rx_pow = <<0, 0, 0, 0>>
    /\ verify_ret = "none"
    /\ rxpc = "new"

InitRandomX == ServiceIdle /\ WatchIdle /\ ScryptIdle /\ PowIdle /\ RxInit /\ ProveIdle /\ ParseIdle /\ GpIdle

NextRandomX ==
    \/ prove /\ UNCHANGED non_rx_vars
    \/ \E pow \in PowNonces : verify(pow) /\ UNCHANGED non_rx_vars

SpecRandomX == InitRandomX /\ [][NextRandomX]_vars

\* a data set is initialized and generate_proof is called with a challenge
\* and a ProofConfig; the PoW of the prover and of the verifier are built
ProveInit ==
    /\ num_labels \in 2..MaxNumLabels
    /\ cfg \in [k1 : 1..MaxK1, k2 : 1..MaxK2]
    /\ nonces_total \in {16, 32}
    /\ pv_seed \in 1..MaxProveSeed
    /\ pv_dry \in {0, 16}
    /\ window = 0
    /\ pv_proof = NoProof
    /\ pvpc = "scanning"
    /\ v_ret = "none"
    /\ tampered = FALSE
    /\ PowInit
    /\ pow_fn = "find_k2_pow"
    /\ pow_difficulty \in {0, 1}
    /\ \A p \in PowRange : pow_hash[p] = IF p = 1 THEN 0 ELSE 1
    /\ RxInit
    /\ rx_seed = 1
    /\ nonce_group = 0
    /\ rx_challenge = <<104, 101, 108, 108, 111, 33, 33, 33>>
    /\ rx_difficulty # Rep(32, 0)

InitProve == ServiceIdle /\ WatchIdle /\ ScryptIdle /\ ProveInit /\ ParseIdle /\ GpIdle

NextProve ==
    \/ scan_window /\ UNCHANGED non_prove_vars
    \/ pvpc = "pow" /\ prove /\ UNCHANGED non_rx_vars
    \/ seal /\ UNCHANGED non_prove_vars
    \/ verifier_check /\ UNCHANGED non_prove_vars
    \/ pvpc = "verify_pow" /\ verify(pv_proof.pow) /\ UNCHANGED non_rx_vars
    \/ verifier_result /\ UNCHANGED non_prove_vars

SpecProve == InitProve /\ [][NextProve]_vars

\* the prove-then-verify test goes on: the accepted proof is changed and verified again
NextTamper ==
    \/ scan_window /\ UNCHANGED non_prove_vars
    \/ pvpc = "pow" /\ prove /\ UNCHANGED non_rx_vars
    \/ seal /\ UNCHANGED non_prove_vars
    \/ verifier_check /\ UNCHANGED non_prove_vars
    \/ pvpc = "verify_pow" /\ verify(pv_proof.pow) /\ UNCHANGED non_rx_vars
    \/ verifier_result /\ UNCHANGED non_prove_vars
    \/ tamper_pow /\ UNCHANGED non_prove_vars

SpecTamper == InitProve /\ [][NextTamper]_vars

\* the characters of the arguments tried
ArgChars == {"0", "1", "2", "4", "6", "8", "9", "+", "-", "x"}

RECURSIVE Strings(_)
Strings(n) ==
    IF n = 0 THEN {<<>>}
    ELSE Strings(n - 1) \cup {Append(a, c) : a \in {b \in Strings(n - 1) : Len(b) = n - 1}, c \in ArgChars}

\* clap calls parse_nonces with the string given for --nonces
ParseInit ==
    /\ nonces_arg \in Strings(MaxArgLen)
    /\ nonces_ret = [kind |-> "none", nonces |-> 0]
    /\ pnpc = "called"

InitParse == ServiceIdle /\ WatchIdle /\ ScryptIdle /\ PowIdle /\ RxIdle /\ ProveIdle /\ ParseInit /\ GpIdle

NextParse == parse_nonces /\ UNCHANGED non_parse_vars

SpecParse == InitParse /\ [][NextParse]_vars

----------------------------------------------------------------------------
(* The thread of generate_proof and the shutdown of the service *)

\* chunks of labels in one pass over the data
MaxChunks == 3
\* windows of 16 nonces tried
MaxWindows == 2
\* candidates a PoW search tries before its first solution
MaxSearch == 2

\* the scan reads the stop flag between two chunks and aborts with Cancelled;
\* a nonce that reaches k2 indices is sealed; a pass without one moves on to
\* the next window
scan_chunk ==
    /\ gp_phase = "scan"
    /\ IF stop_flag
       THEN /\ gp_phase' = "done"
            /\ gp_ret' = "Cancelled"
            /\ UNCHANGED <<gp_window, gp_pos>>
       ELSE IF gp_hit = [window |-> gp_window, chunk |-> gp_pos]
       THEN /\ gp_phase' = "k2_pow"
            /\ gp_pos' = 0
            /\ UNCHANGED <<gp_window, gp_ret>>
       ELSE IF gp_pos + 1 = MaxChunks
       THEN /\ gp_window' = gp_window + 1
            /\ gp_pos' = 0
            /\ UNCHANGED <<gp_phase, gp_ret>>
       ELSE /\ gp_pos' = gp_pos + 1
            /\ UNCHANGED <<gp_phase, gp_window, gp_ret>>
    /\ UNCHANGED <<stop_flag, gp_hit, gp_sol, shutdown>>

\* pow.rs:13-18: find_first over 0..u64::MAX; the search has no stop flag
find_k2_pow ==
    /\ gp_phase = "k2_pow"
    /\ IF gp_pos = gp_sol.k2
       THEN gp_phase' = "k3_pow" /\ gp_pos' = 0
       ELSE gp_pos' = gp_pos + 1 /\ UNCHANGED gp_phase
    /\ UNCHANGED <<stop_flag, gp_window, gp_hit, gp_sol, gp_ret, shutdown>>

\* pow.rs:35-49: find_first over 0..u64::MAX; the search has no stop flag
find_k3_pow ==
    /\ gp_phase = "k3_pow"
    /\ IF gp_pos = gp_sol.k3
       THEN gp_phase' = "randomx" /\ gp_pos' = 0
       ELSE gp_pos' = gp_pos + 1 /\ UNCHANGED gp_phase
    /\ UNCHANGED <<stop_flag, gp_window, gp_hit, gp_sol, gp_ret, shutdown>>

\* randomx.rs:45-72: PoW::prove has no stop flag; with its pow the proof is
\* complete and generate_proof returns it
randomx_prove ==
    /\ gp_phase = "randomx"
    /\ IF gp_pos = gp_sol.rx
       THEN gp_phase' = "done" /\ gp_ret' = "Ok" /\ UNCHANGED gp_pos
       ELSE gp_pos' = gp_pos + 1 /\ UNCHANGED <<gp_phase, gp_ret>>
    /\ UNCHANGED <<stop_flag, gp_window, gp_hit, gp_sol, shutdown>>

\* service.rs:135-137: Drop takes the process and stores true in the stop flag
shutdown_stop ==
    /\ shutdown = "live"
    /\ stop_flag' = TRUE
    /\ shutdown' = "joining"
    /\ UNCHANGED <<gp_phase, gp_window, gp_pos, gp_hit, gp_sol, gp_ret>>

\* service.rs:138: handle.join() returns once the thread has terminated
shutdown_join ==
    /\ shutdown = "joining"
    /\ gp_phase = "done"
    /\ shutdown' = "dropped"
    /\ UNCHANGED <<stop_flag, gp_phase, gp_window, gp_pos, gp_hit, gp_sol, gp_ret>>

\* gen_proof has spawned the thread of generate_proof
GpInit ==
    /\ stop_flag = FALSE
    /\ gp_phase = "scan"
    /\ gp_window = 0
    /\ gp_pos = 0
    /\ gp_hit \in [window : 0..(MaxWindows - 1), chunk : 0..(MaxChunks - 1)]
    /\ gp_sol \in [k2 : 0..MaxSearch, k3 : 0..MaxSearch, rx : 0..MaxSearch]
    /\ gp_ret = "none"
    /\ shutdown = "live"

InitShutdown == ServiceIdle /\ WatchIdle /\ ScryptIdle /\ PowIdle /\ RxIdle /\ ProveIdle /\ ParseIdle /\ GpInit

NextShutdown ==
    \/ scan_chunk /\ UNCHANGED non_gp_vars
    \/ find_k2_pow /\ UNCHANGED non_gp_vars
    \/ find_k3_pow /\ UNCHANGED non_gp_vars
    \/ randomx_prove /\ UNCHANGED non_gp_vars
    \/ shutdown_stop /\ UNCHANGED non_gp_vars
    \/ shutdown_join /\ UNCHANGED non_gp_vars

\* the thread of generate_proof keeps running, and a join that can return does
SpecShutdown ==
    /\ InitShutdown
    /\ [][NextShutdown]_vars
    /\ WF_vars(scan_chunk /\ UNCHANGED non_gp_vars)
    /\ WF_vars(find_k2_pow /\ UNCHANGED non_gp_vars)
    /\ WF_vars(find_k3_pow /\ UNCHANGED non_gp_vars)
    /\ WF_vars(randomx_prove /\ UNCHANGED non_gp_vars)
    /\ WF_vars(shutdown_join /\ UNCHANGED non_gp_vars)

----------------------------------------------------------------------------
(* Properties of the proof service *)

\* the job recorded before the step, and its worker
Process == proof_generation[1]
ProcessWorker == workers[proof_generation[1].handle]

\* the step is a gen_proof call; its challenge is that of request'
GenProofCalled == calls' = calls + 1
Challenge == request'[1].challenge

\* the threads started and not yet joined
Unjoined == {h \in DOMAIN workers : ~workers[h].joined}

\* C1: when no job is recorded, gen_proof(c) with a 32-byte c starts exactly one
\* worker for c, records the job for c and returns InProgress, never Finished
C1_IdleStartsOneWorker ==
    [][(GenProofCalled /\ proof_generation = None /\ Len(Challenge) = ChallengeLen)
        => /\ ret' = RetInProgress
           /\ Len(workers') = Len(workers) + 1
           /\ SubSeq(workers', 1, Len(workers)) = workers
           /\ workers'[Len(workers')].challenge = Challenge
           /\ workers'[Len(workers')].status = "running"
           /\ proof_generation' = Some([challenge |-> Challenge, handle |-> Len(workers')])
      ]_vars

\* C1: the first call has returned InProgress although its worker has already finished
C1_Witness ==
    /\ calls = 1
    /\ branch = "start"
    /\ ret = RetInProgress
    /\ Len(workers) = 1
    /\ workers[1].status = "ok"
    /\ proof_generation # None

\* C2: while the worker for c runs, gen_proof(c) returns InProgress and changes
\* nothing: the same job stays recorded and no worker is started
C2_RunningIsInProgress ==
    [][(/\ GenProofCalled
        /\ proof_generation # None
        /\ Process.challenge = Challenge
        /\ ProcessWorker.status = "running")
        => /\ ret' = RetInProgress
           /\ UNCHANGED <<proof_generation, workers, stop, svc, metadata, id>>
      ]_vars

\* C2: gen_proof was called again for the challenge of the running worker
C2_Witness ==
    /\ branch = "in_progress"
    /\ calls >= 2
    /\ ret = RetInProgress
    /\ proof_generation # None
    /\ ProcessWorker.status = "running"
    /\ Len(workers) = 1

\* C3, as stated: when the worker for c has returned a proof, gen_proof(c) returns
\* Finished with that proof and the metadata of c and of the stored record, and no
\* job is recorded afterwards
C3_FinishedReturnsProof ==
    [][(/\ GenProofCalled
        /\ proof_generation # None
        /\ Process.challenge = Challenge
        /\ ProcessWorker.status = "ok")
        => /\ ret' = RetFinished(ProcessWorker.proof[1],
                        [challenge |-> Challenge, node_id |-> metadata.node_id,
                         commitment_atx_id |-> metadata.commitment_atx_id,
                         num_units |-> metadata.num_units,
                         labels_per_unit |-> metadata.labels_per_unit])
           /\ proof_generation' = None
      ]_vars

\* C3, amended: when the worker for c has returned a proof, gen_proof(c) returns
\* Finished with that proof and the metadata of c and of the stored record, unless
\* loading the stored metadata fails, and then it returns that error; no job is
\* recorded afterwards in either case
C3_FinishedUnlessLoadFails ==
    [][(/\ GenProofCalled
        /\ proof_generation # None
        /\ Process.challenge = Challenge
        /\ ProcessWorker.status = "ok")
        => /\ \/ ret' = RetFinished(ProcessWorker.proof[1],
                           [challenge |-> Challenge, node_id |-> metadata.node_id,
                            commitment_atx_id |-> metadata.commitment_atx_id,
                            num_units |-> metadata.num_units,
                            labels_per_unit |-> metadata.labels_per_unit])
              \/ ret' = RetErr("loading POST metadata")
           /\ proof_generation' = None
      ]_vars

\* C3: a proof was collected: Finished was returned and no job is recorded
C3_Witness ==
    /\ branch = "collect"
    /\ ret.kind = "Finished"
    /\ ret.metadata[1].challenge = request[1].challenge
    /\ proof_generation = None
    /\ workers[Len(workers)].status = "ok"
    /\ workers[Len(workers)].joined

\* C4: when the worker for c has returned an error, gen_proof(c) returns that error
\* and no job is recorded afterwards; the next gen_proof with a 32-byte challenge
\* starts a new worker
C4_FailedReturnsError ==
    /\ [][(/\ GenProofCalled
           /\ proof_generation # None
           /\ Process.challenge = Challenge
           /\ ProcessWorker.status = "err")
           => /\ ret' = RetErr(ProcessWorker.err)
              /\ proof_generation' = None
         ]_vars
    /\ [][(/\ GenProofCalled
           /\ branch = "collect"
           /\ ret.kind = "Err"
           /\ Len(Challenge) = ChallengeLen)
           => /\ Len(workers') = Len(workers) + 1
              /\ workers'[Len(workers')].status = "running"
              /\ proof_generation' # None
         ]_vars

\* C4: the error of the first worker was returned and a second worker was started
C4_Witness ==
    /\ Len(workers) = 2
    /\ workers[1].status = "err"
    /\ workers[1].joined
    /\ branch = "start"
    /\ proof_generation = Some([challenge |-> workers[2].challenge, handle |-> 2])

\* C5: while a job for c is recorded, gen_proof(c') with c' # c fails with the
\* different-challenge error, starts no worker and leaves the job unchanged
C5_DifferentChallengeFails ==
    [][(/\ GenProofCalled
        /\ proof_generation # None
        /\ Process.challenge # Challenge)
        => /\ ret' = RetErr("BusyDifferentChallenge")
           /\ UNCHANGED <<proof_generation, workers, stop, svc>>
      ]_vars

\* C5: a call for another 32-byte challenge failed while a job was recorded
C5_Witness ==
    /\ branch = "busy"
    /\ ret = RetErr("BusyDifferentChallenge")
    /\ proof_generation # None
    /\ Len(request[1].challenge) = ChallengeLen
    /\ request[1].challenge # Process.challenge

\* C6: at most one thread has been started and not yet joined
C6_AtMostOneWorker == Cardinality(Unjoined) <= 1

\* C6: a second worker runs after the first one was joined
C6_Witness ==
    /\ Len(workers) >= 2
    /\ Cardinality(Unjoined) = 1
    /\ workers[Len(workers)].status = "running"

\* C7: dropping the service while a job is recorded sets the stop flag before it
\* waits for the worker, returns only after the worker has terminated, and does
\* not panic, whatever the outcome of the worker
C7_DropJoinsWithoutPanic ==
    /\ svc = "joining" => stop
    /\ svc = "dropped" => \A h \in DOMAIN workers :
                              workers[h].status # "running" /\ workers[h].joined
    /\ svc # "drop_panicked"

----------------------------------------------------------------------------
(* Properties of the client *)

\* the step answers a request
Answered == handled' = handled + 1

\* C8: when gen_proof returns Finished, the client has run verify_proof before it
\* responds; the response carries the proof and its metadata when the verification
\* succeeded, and has status Error, no proof and no metadata when it failed
C8_FinishedIsVerified ==
    [][(GenProofCalled /\ ret'.kind = "Finished")
        => /\ Answered
           /\ verify_result' \in {"ok", "failed"}
           /\ verify_result' = "ok" =>
                 response' = Some([status |-> "Ok", proof |-> ret'.proof,
                                   metadata |-> ret'.metadata])
           /\ verify_result' = "failed" =>
                 response' = Some([status |-> "Error", proof |-> None, metadata |-> None])
      ]_vars

\* C8: a Finished proof failed the local verification and was answered with Error
C8_Witness ==
    /\ ret.kind = "Finished"
    /\ verify_result = "failed"
    /\ response = Some([status |-> "Error", proof |-> None, metadata |-> None])

\* C9: when gen_proof returns InProgress or fails, the response carries no proof
\* and no metadata, its status is Error when gen_proof failed, and the client keeps
\* serving on the same connection
C9_NoProofUnlessFinished ==
    [][(GenProofCalled /\ ret'.kind \in {"InProgress", "Err"})
        => /\ Answered
           /\ response' # None
           /\ response'[1].proof = None
           /\ response'[1].metadata = None
           /\ ret'.kind = "Err" => response'[1].status = "Error"
           /\ cstate' = "Serving"
           /\ UNCHANGED <<registers, attempt>>
      ]_vars

\* C9: a failed gen_proof was answered with Error and the client is still serving
C9_Witness ==
    /\ request # None
    /\ request[1].kind = "GenProof"
    /\ ret.kind = "Err"
    /\ response = Some([status |-> "Error", proof |-> None, metadata |-> None])
    /\ cstate = "Serving"

\* C10: a request with no kind is answered with status Error, no proof and no
\* metadata, without a call of gen_proof, and the client stays in Serving
C10_BrokenRequestIsError ==
    [][(Answered /\ request'[1].kind # "GenProof")
        => /\ response' = Some([status |-> "Error", proof |-> None, metadata |-> None])
           /\ calls' = calls
           /\ UNCHANGED <<proof_generation, workers, stop, svc, ret>>
           /\ cstate' = "Serving"
           /\ UNCHANGED <<registers, attempt>>
      ]_vars

\* C10: a request with no kind was answered while a job is recorded
C10_Witness ==
    /\ request = Some([kind |-> "None", challenge |-> <<>>])
    /\ response = Some([status |-> "Error", proof |-> None, metadata |-> None])
    /\ cstate = "Serving"
    /\ proof_generation # None
    /\ calls < handled

\* C11: on every connection Register is sent exactly once, before any NodeRequest
\* is answered on it, and Disconnected, Connecting, Registered, Serving are passed
\* in this order
C11_RegisterOncePerConnection ==
    /\ [][Answered => (registers = 1 /\ cstate = "Serving")]_vars
    /\ [][registers' # registers =>
            \/ registers = 0 /\ registers' = 1 /\ cstate = "Connecting" /\ cstate' = "Registered"
            \/ registers' = 0 /\ cstate' \in {"Disconnected", "Stopped"}]_vars
    /\ [][cstate' # cstate =>
            \/ cstate = "Disconnected" /\ cstate' = "Connecting"
            \/ cstate = "Connecting" /\ cstate' = "Registered" /\ registers' = 1
            \/ cstate = "Registered" /\ cstate' = "Serving" /\ registers' = 1
            \/ cstate' \in {"Disconnected", "Stopped"}]_vars

\* C11: a request was answered on a second connection, on which Register was sent once
C11_Witness ==
    /\ attempt = 1
    /\ cstate = "Serving"
    /\ registers = 1
    /\ handled = MaxRequests

\* C12: after a transport failure in any state the client backs off, connects
\* again, registers again and resumes serving; with max_retries set the run loop
\* ends after that many failures, and with max_retries not set it never gives up
C12_ReconnectUnlessRetriesExhausted ==
    /\ [][attempt' = attempt + 1 =>
            /\ cstate \in {"Connecting", "Registered", "Serving"}
            /\ registers' = 0
            /\ IF max_retries # None /\ attempt + 1 >= max_retries[1]
               THEN cstate' = "Stopped"
               ELSE cstate' = "Disconnected"]_vars
    /\ [](cstate = "Stopped" /\ svc = "live" =>
             max_retries # None /\ attempt = max_retries[1])
    /\ (cstate = "Disconnected") ~> (cstate \in {"Serving", "Stopped"})

\* C12: the client serves again after a failure, and has failures left
C12_Witness ==
    /\ attempt = 1
    /\ max_retries = Some(2)
    /\ cstate = "Serving"
    /\ registers = 1

\* C13: once the watched PID no longer exists or is a zombie or dead, watch_pid
\* returns at its next check and so within about one interval, also while the
\* termination channel stays open and nothing is sent on it
C13_ReturnsWhenPidGone ==
    /\ [][wpc = "refresh" /\ wpc' # wpc /\ pid_state \notin Alive => wpc' = "returned"]_vars
    /\ (pid_state \notin Alive) ~> (wpc = "returned")

C13_Witness ==
    /\ wpc = "returned"
    /\ wreason \in {"gone", "died"}
    /\ term = "open"
    /\ polls > 1

\* C14: a value sent on the termination channel, or its sender dropped, makes
\* watch_pid return at the next poll; with the PID alive, the channel open and
\* nothing sent it does not return
C14_ReturnsOnTermination ==
    /\ [][wpc = "try_recv" /\ wpc' # wpc /\ term # "open" => wpc' = "returned"]_vars
    /\ [][wpc # "returned" /\ wpc' = "returned" => term # "open" \/ pid_state \notin Alive]_vars
    /\ (term # "open") ~> (wpc = "returned")

C14_Witness ==
    /\ wpc = "returned"
    /\ wreason = "terminated"
    /\ term = "closed"
    /\ pid_state \in Alive
    /\ polls > 1

\* the range of a finished scrypt call, and the label of out at an index of it
Range == labels.start..(labels.end - 1)
Persisted(index) ==
    SubSeq(out, (index - labels.start) * LABEL_SIZE + 1, (index - labels.start + 1) * LABEL_SIZE)

\* C15: after the labels of a range are initialized with a vrf_difficulty set,
\* no label of the range has a 32-byte value strictly smaller than the value of
\* the reported VRF nonce
C15_NoLabelBelowNonce ==
    spc = "ok" /\ vrf_difficulty # None /\ vrf_nonce # None =>
        \A index \in Range : ~LtBytes(Kernel(index), vrf_nonce[1].label)

\* C16: the label of a returned VRF nonce is strictly less than vrf_difficulty
\* and its first 16 bytes are the persisted label at nonce.index
C16_NonceIsPersistedLabel ==
    spc = "ok" /\ vrf_nonce # None =>
        /\ LtBytes(vrf_nonce[1].label, vrf_difficulty[1])
        /\ vrf_nonce[1].index \in Range
        /\ SubSeq(vrf_nonce[1].label, 1, LABEL_SIZE) = Persisted(vrf_nonce[1].index)

\* C17: after scrypt(labels, out) succeeds, the 16 bytes of out at every i of
\* the range are the first 16 bytes of the kernel's output for labels.start + i
C17_OutIsTruncatedKernelOutput ==
    spc = "ok" =>
        \A index \in Range : Persisted(index) = SubSeq(Kernel(index), 1, LABEL_SIZE)

\* C18: find_k2_pow and find_k3_pow return the lowest p whose hash is strictly
\* below the difficulty: the returned p satisfies the predicate, no smaller p
\* does, and every run with the same inputs returns the same p whatever the
\* order in which the workers evaluated the predicate
C18_LowestPowIsReturned ==
    \A r \in 1..Len(pow_results) :
        /\ pow_hash[pow_results[r]] < pow_difficulty
        /\ \A q \in 0..(pow_results[r] - 1) : pow_hash[q] >= pow_difficulty
        /\ pow_results[r] = pow_results[1]

C18_Witness ==
    /\ Len(pow_results) = 2
    /\ pow_results[2] > 0
    /\ \E q \in checked : q > pow_results[2] /\ pow_hash[q] < pow_difficulty

\* C19: when PoW::prove returns a pow, the pow is below 2^56, the hash of its 7
\* low little-endian bytes, then nonce_group, then challenge is strictly below
\* difficulty, and PoW::verify of that pow with the same inputs succeeds
C19_VerifyAcceptsProvedPow ==
    prove_ret.kind = "Ok" =>
        /\ prove_ret.pow[4] < 256
        /\ LtBytes(calculate_hash(SubSeq(to_le_bytes(prove_ret.pow), 1, 7)
                                      \o <<nonce_group>> \o rx_challenge), rx_difficulty)
        /\ rxpc = "verified" /\ rx_pow = prove_ret.pow => verify_ret = "Ok"

C19_Witness ==
    /\ rxpc = "verified"
    /\ prove_ret.kind = "Ok"
    /\ rx_pow = prove_ret.pow
    /\ verify_ret = "Ok"
    /\ rx_pow[3] = 65535
    /\ rx_pow[4] = 255
    /\ rx_difficulty = <<15>> \o Rep(31, 255)

\* C20: the proof generate_proof returns for an initialized data set and a
\* challenge is accepted by Verifier::verify with the same configuration, also
\* when the most significant byte of the proving difficulty is not zero
C20_VerifyAcceptsGeneratedProof ==
    pvpc = "verified" /\ pv_proof # NoProof => v_ret = "Ok"

C20_Witness ==
    /\ pvpc = "verified"
    /\ v_ret = "Ok"
    /\ (cfg.k1 * 2^ValueBits) \div num_labels >= 2^(ValueBits - MsbBits)
    /\ cfg.k2 = 3
    /\ Len(pv_proof.indices) = 2
    /\ pv_proof.nonce >= 16

\* C21: a proof the verifier accepted, with its pow decremented by one, is
\* rejected with InvalidPoW when pow_difficulty is [0xFF; 32]
C21_DecrementedPowIsInvalid ==
    pvpc = "verified" /\ tampered /\ rx_difficulty = Rep(32, 255) => v_ret = "InvalidPoW"

\* C22: parse_nonces accepts exactly the numbers that are a multiple of 16 and
\* at most 4096, so the nonce group n / 16 of every nonce n below an accepted
\* count is at most 255
C22_AcceptedNoncesFitNonceGroup ==
    pnpc = "returned" /\ nonces_ret.kind # "none" =>
        /\ nonces_ret.kind = "Ok" <=>
              /\ parse_usize(nonces_arg) # None
              /\ parse_usize(nonces_arg)[1] % 16 = 0
              /\ parse_usize(nonces_arg)[1] <= 4096
        /\ nonces_ret.kind = "Ok" =>
              /\ nonces_ret.nonces = parse_usize(nonces_arg)[1]
              /\ \A n \in 0..(nonces_ret.nonces - 1) : n \div 16 <= 255

C22_Witness ==
    /\ pnpc = "returned"
    /\ nonces_ret = [kind |-> "Ok", nonces |-> 4096]

\* C23: once the stop flag is set while the thread of generate_proof is
\* running, in whichever phase, the thread eventually terminates with
\* Cancelled and without a proof
C23_StopLeadsToCancelled ==
    (stop_flag /\ gp_phase # "done") ~> (gp_phase = "done" /\ gp_ret = "Cancelled")

C25_NonceIndexInRange ==
    spc = "ok" /\ returned # <<>> /\ returned[Len(returned)] # None =>
        /\ labels.start <= returned[Len(returned)][1].index
        /\ returned[Len(returned)][1].index < labels.end

\* C26: a job whose worker has finished and whose result was not collected
\* blocks the service: gen_proof(c') with c' # c fails with the
\* different-challenge error and leaves the job, and the job is given up, with
\* the service still usable, only by a gen_proof(c) that returns Finished or
\* the worker's error
C26_FinishedJobBlocksUntilCollected ==
    /\ [][(/\ GenProofCalled
           /\ proof_generation # None
           /\ ProcessWorker.status # "running"
           /\ Process.challenge # Challenge)
           => /\ ret' = RetErr("BusyDifferentChallenge")
              /\ UNCHANGED <<proof_generation, workers>>
         ]_vars
    /\ [][(/\ proof_generation # None
           /\ ProcessWorker.status # "running"
           /\ proof_generation' # proof_generation
           /\ svc' = "live")
           => /\ GenProofCalled
              /\ Challenge = Process.challenge
              /\ \/ ret'.kind = "Finished"
                 \/ ProcessWorker.status = "err" /\ ret' = RetErr(ProcessWorker.err)
         ]_vars

\* C26, amended: the gen_proof(c) that gives the job up may also return the
\* error of loading the metadata, when the worker returned a proof
C26_FinishedJobBlocksUntilTaken ==
    /\ [][(/\ GenProofCalled
           /\ proof_generation # None
           /\ ProcessWorker.status # "running"
           /\ Process.challenge # Challenge)
           => /\ ret' = RetErr("BusyDifferentChallenge")
              /\ UNCHANGED <<proof_generation, workers>>
         ]_vars
    /\ [][(/\ proof_generation # None
           /\ ProcessWorker.status # "running"
           /\ proof_generation' # proof_generation
           /\ svc' = "live")
           => /\ GenProofCalled
              /\ Challenge = Process.challenge
              /\ proof_generation' = None
              /\ workers'[Process.handle].joined
              /\ \/ ret'.kind = "Finished"
                 \/ ProcessWorker.status = "err" /\ ret' = RetErr(ProcessWorker.err)
                 \/ ProcessWorker.status = "ok" /\ ret' = RetErr("loading POST metadata")
         ]_vars

\* C26: a call for another challenge failed while the finished worker's result
\* was not collected
C26_Witness ==
    /\ branch = "busy"
    /\ ret = RetErr("BusyDifferentChallenge")
    /\ proof_generation # None
    /\ ProcessWorker.status = "ok"
    /\ ~ProcessWorker.joined
    /\ calls >= 3

\* pow mod 2^56 on the limbs
Low56(pow) == <<pow[1], pow[2], pow[3], pow[4] % 256>>

\* C27: the outcome of PoW::verify depends only on the low 56 bits of pow:
\* verify(pow, ..) gives what the hash of pow mod 2^56 with the same
\* nonce_group and challenge gives against the same difficulty
C27_VerifyIgnoresTopByte ==
    rxpc = "verified" /\ verify_ret # "none" =>
        verify_ret =
            IF ~rx_vm_ok THEN "Internal"
            ELSE IF LtBytes(calculate_hash(SubSeq(to_le_bytes(Low56(rx_pow)), 1, 7)
                                           \o <<nonce_group>> \o rx_challenge),
                            rx_difficulty)
                 THEN "Ok"
                 ELSE "InvalidPoW"

\* C27: a pow with a top byte that is not zero was verified and accepted under
\* a difficulty that rejects some hashes
C27_Witness ==
    /\ rxpc = "verified"
    /\ rx_vm_ok
    /\ rx_pow[4] >= 256
    /\ Low56(rx_pow) # rx_pow
    /\ verify_ret = "Ok"
    /\ rx_difficulty # Rep(32, 255)

====
